---- MODULE Spec2Model ----
(***************************************************************************)
(* Model of agent-skills-tool (src/src/index.ts): one run of the CLI,      *)
(* from program.action through runInstall, resolveSkillSource, the target  *)
(* loop and the finally-cleanup, over an explicit file system.             *)
(*                                                                         *)
(* Strings that the code splits on "/" (paths, sub-directories, URL path   *)
(* names) are sequences of segments; the empty string is <<>>.  A manifest *)
(* name is a sequence of characters/atoms so that trim() and path.join()   *)
(* are computed rather than assumed.                                       *)
(***************************************************************************)
EXTENDS Integers, Sequences, FiniteSets, TLC

(* ----------------------------- bounds ---------------------------------- *)
\* number of payload files of the skill source besides SKILL.md
NumSrcFiles == 1
\* number of files that exist only in a pre-existing destination
NumExtraFiles == 1

(* ------------------------- JavaScript values --------------------------- *)
\* the value `undefined` of an optional string
Undef == <<"<undefined>">>
\* JavaScript truthiness of an optional string: neither undefined nor ""
Truthy(s) == s # Undef /\ s # <<>>

(* ------------------------------ paths ---------------------------------- *)
RECURSIVE NormSegs(_, _)
\* path.normalize on the segments of an absolute path: "" and "." vanish,
\* ".." removes the segment before it (and is dropped at the root)
NormSegs(segs, acc) ==
    IF segs = <<>> THEN acc
    ELSE LET s == Head(segs) IN
         IF s = "" \/ s = "." THEN NormSegs(Tail(segs), acc)
         ELSE IF s = ".."
              THEN NormSegs(Tail(segs),
                            IF acc = <<>> THEN acc ELSE SubSeq(acc, 1, Len(acc) - 1))
              ELSE NormSegs(Tail(segs), Append(acc, s))

\* path.join(base, rel) for an absolute base
PathJoin(base, rel) == NormSegs(base \o rel, <<>>)

\* path.dirname / path.basename of a normalized absolute path
DirName(p) == IF p = <<>> THEN <<>> ELSE SubSeq(p, 1, Len(p) - 1)
BaseName(p) == IF p = <<>> THEN "" ELSE p[Len(p)]

\* path.posix.dirname of a relative slash-separated string
PosixDirname(s) == IF Len(s) <= 1 THEN <<".">> ELSE SubSeq(s, 1, Len(s) - 1)

\* Array.prototype.join("/") seen as a slash-separated string: [""] and []
\* both give the empty string
JoinSlash(segs) == IF segs = <<"">> THEN <<>> ELSE segs

\* p is q or an ancestor of q
IsPrefix(p, q) == Len(p) <= Len(q) /\ SubSeq(q, 1, Len(p)) = p

\* the process working directory and the fixed places of the environment
Cwd == <<"s">>
HomeDir == <<"h">>
TmpDir == <<"tmp">>

\* path.resolve(input) for a local input
PathResolve(input) ==
    IF input.abs THEN NormSegs(input.segs, <<>>)
    ELSE NormSegs(Cwd \o input.segs, <<>>)

(* --------------------------- file system ------------------------------- *)
\* A file system is a function from the paths that exist to "dir" or to the
\* contents of the file.
Dir == "dir"

Prefixes(p) == { SubSeq(p, 1, n) : n \in 0..Len(p) }

FsExists(f, p) == p \in DOMAIN f
FsIsDir(f, p) == p \in DOMAIN f /\ f[p] = Dir
FsIsFile(f, p) == p \in DOMAIN f /\ f[p] # Dir

\* fs.mkdir(p, {recursive: true}) succeeds unless a file is in the way
MkdirOk(f, p) == \A q \in Prefixes(p) : ~FsIsFile(f, q)
Mkdir(f, p) == [q \in DOMAIN f \cup Prefixes(p) |-> IF q \in DOMAIN f THEN f[q] ELSE Dir]

\* a mutation of Rm: nothing is removed
RmNothing(f, p) == f

\* fs.rm(p, {recursive: true, force: true})
Rm(f, p) == [q \in { x \in DOMAIN f : ~IsPrefix(p, x) } |-> f[q]]

\* the entries below a directory, by path relative to it
RelPaths(f, d) == { SubSeq(q, Len(d) + 1, Len(q)) : q \in { x \in DOMAIN f : IsPrefix(d, x) /\ x # d } }
\* the tree below a directory: relative path -> "dir" or contents
Tree(f, d) == [r \in RelPaths(f, d) |-> f[d \o r]]

\* fs.cp(src, dst, {recursive: true, force: true}) refuses a missing source,
\* a destination that is the source or lies inside it, and a directory
\* copied onto a file or a file onto a directory
CpOk(f, src, dst) ==
    /\ FsIsDir(f, src)
    /\ ~IsPrefix(src, dst)
    /\ \A r \in RelPaths(f, src) :
          FsExists(f, dst \o r) => ((f[src \o r] = Dir) <=> (f[dst \o r] = Dir))

\* a mutation of CpSome: entries the destination already has are kept (force: false)
CpSomeKeepsExisting(f, src, dst, rels) ==
    LET new == { dst \o r : r \in rels } \ DOMAIN f IN
    [q \in DOMAIN f \cup new |->
        IF q \in new THEN f[src \o SubSeq(q, Len(dst) + 1, Len(q))] ELSE f[q]]

\* the copy of the entries rels of src into dst (all of them when complete)
CpSome(f, src, dst, rels) ==
    LET new == { dst \o r : r \in rels } IN
    [q \in DOMAIN f \cup new |->
        IF q \in new THEN f[src \o SubSeq(q, Len(dst) + 1, Len(q))] ELSE f[q]]

Cp(f, src, dst) == CpSome(f, src, dst, RelPaths(f, src))

\* copyDir(sourceDir, targetDir): mkdir -p the target, then cp
CopyDirOk(f, src, dst) == MkdirOk(f, dst) /\ CpOk(Mkdir(f, dst), src, dst)
CopyDir(f, src, dst) == Cp(Mkdir(f, dst), src, dst)

(* ------------------------ repo-spec parsing ---------------------------- *)
\* An input string is [scheme, host, abs, segs]: "https://github.com/o/r" is
\* [scheme |-> "https", host |-> "github.com", abs |-> FALSE, segs |-> <<"o","r">>],
\* "/s/foo" is [scheme |-> "none", host |-> "", abs |-> TRUE, segs |-> <<"s","foo">>].
\* The empty string has no scheme and no segments.
EmptyInput == [scheme |-> "none", host |-> "", abs |-> FALSE, segs |-> <<>>]

\* segments that are not made of word characters, dots and hyphens only
NonWordSegs == {"", "a b"}
\* segments that end in ".git" / in "SKILL.md"
GitSegs == {"r.git"}
SkillMdSegs == {"SKILL.md"}

StartsWithHttp(input) == input.scheme \in {"http", "https"}
EndsWithGit(input) == input.segs # <<>> /\ input.segs[Len(input.segs)] \in GitSegs
\* /^[\w.-]+\/[\w.-]+$/
MatchesShorthand(input) ==
    /\ input.scheme = "none" /\ ~input.abs
    /\ Len(input.segs) = 2
    /\ input.segs[1] \notin NonWordSegs /\ input.segs[2] \notin NonWordSegs

isRepoLike(input) ==
    IF input = EmptyInput THEN FALSE
    ELSE IF StartsWithHttp(input) THEN TRUE
    ELSE IF EndsWithGit(input) THEN TRUE
    ELSE MatchesShorthand(input)

\* the text of an input, as the pieces it was written from
InputText(input) == <<input.scheme, input.host>> \o input.segs

NullSpec == [isRepo |-> FALSE, repoUrl |-> <<>>, ref |-> Undef, subdir |-> Undef]

\* `new URL(input)` throws on a URL without a host
UrlParses(input) == input.host # ""
\* url.pathname.replace(/^\//, "").split("/")
UrlSegments(input) == IF input.segs = <<>> THEN <<"">> ELSE input.segs

\* a path segment as a string: the empty segment is the empty string
SegString(a) == IF a = "" THEN <<>> ELSE <<a>>

parseGitHubUrl(segments) ==
    IF Len(segments) < 2 THEN NullSpec
    ELSE LET owner == segments[1]
             repo == segments[2]
             marked == Len(segments) >= 3 /\ segments[3] \in {"tree", "blob"}
             ref == IF marked /\ Len(segments) >= 4 THEN SegString(segments[4]) ELSE Undef
             rest == JoinSlash(SubSeq(segments, 5, Len(segments)))
             subdir == IF ~marked THEN Undef
                       ELSE IF Truthy(rest) /\ rest[Len(rest)] \in SkillMdSegs
                            THEN PosixDirname(rest)
                            ELSE rest
         IN  [isRepo |-> TRUE,
              repoUrl |-> <<"https://github.com/", owner, "/", repo, ".git">>,
              ref |-> ref, subdir |-> subdir]

parseRepoSpec(input) ==
    IF input = EmptyInput THEN NullSpec
    ELSE IF StartsWithHttp(input)
         THEN IF ~UrlParses(input) THEN NullSpec
              ELSE LET gh == IF input.host = "github.com"
                             THEN parseGitHubUrl(UrlSegments(input)) ELSE NullSpec
                   IN  IF gh.isRepo THEN gh
                       ELSE [isRepo |-> TRUE, repoUrl |-> InputText(input),
                             ref |-> Undef, subdir |-> Undef]
    ELSE IF EndsWithGit(input)
         THEN [isRepo |-> TRUE, repoUrl |-> InputText(input), ref |-> Undef, subdir |-> Undef]
    ELSE IF MatchesShorthand(input)
         THEN [isRepo |-> TRUE,
               repoUrl |-> <<"https://github.com/", input.segs[1], "/", input.segs[2], ".git">>,
               ref |-> Undef, subdir |-> Undef]
    ELSE NullSpec

\* runInstall's skillInput: a repo-like input is kept, a local one resolved
SkillInputOf(skillPath) ==
    IF isRepoLike(skillPath) THEN skillPath
    ELSE [scheme |-> "none", host |-> "", abs |-> TRUE, segs |-> PathResolve(skillPath)]

\* a mutation of SubdirConflict: the check is missing
SubdirConflictNever(subdir, spec) == FALSE

\* resolveSkillSource's choices for a repository
SubdirConflict(subdir, spec) == Truthy(subdir) /\ Truthy(spec.subdir)
RepoSubdir(subdir, spec) ==
    IF Truthy(spec.subdir) THEN spec.subdir ELSE IF Truthy(subdir) THEN subdir ELSE <<>>
CloneRef(ref, spec) == IF Truthy(ref) THEN ref ELSE spec.ref

\* resolveSkillDirFromBase's skill directory
SkillDirFromBase(baseDir, subdir) ==
    IF Truthy(subdir) THEN PathJoin(baseDir, subdir) ELSE baseDir

(* --------------------------- the manifest ------------------------------ *)
\* A manifest string is a sequence of atoms; " " is white space and "/" the
\* path separator, every other atom is one whole path segment.
RECURSIVE TrimLeft(_)
TrimLeft(s) == IF s # <<>> /\ Head(s) = " " THEN TrimLeft(Tail(s)) ELSE s
RECURSIVE TrimRight(_)
TrimRight(s) ==
    IF s # <<>> /\ s[Len(s)] = " " THEN TrimRight(SubSeq(s, 1, Len(s) - 1)) ELSE s
\* String.prototype.trim
Trim(s) == TrimRight(TrimLeft(s))

\* String(x || ""): a missing field reads as the empty string
OrEmpty(x) == IF Truthy(x) THEN x ELSE <<>>

\* the segments path.join sees in a string
SplitSlash(s) == SelectSeq(s, LAMBDA a : a # "/")

\* semver.valid on the version strings of the model
ValidVersions == { <<"1.0.0">>, <<"1.0.0-beta.1">> }
SemverValid(v) == v \in ValidVersions

Good(name) == [name |-> name, description |-> <<"d">>, version |-> <<"1.0.0">>]

\* matter(skillContents).data: the frontmatter a SKILL.md's contents hold
Frontmatter(c) ==
    CASE c = "M-foo"      -> Good(<<"foo">>)
      [] c = "M-pad"      -> Good(<<" ", "foo", " ">>)
      [] c = "M-dot"      -> Good(<<".">>)
      [] c = "M-dotdot"   -> Good(<<"..">>)
      [] c = "M-up2"      -> Good(<<"..", "/", "..">>)
      [] c = "M-nested"   -> Good(<<"bar", "/", "foo">>)
      [] c = "M-noname"   -> Good(Undef)
      [] c = "M-blank"    -> Good(<<" ">>)
      [] c = "M-nodesc"   -> [Good(<<"foo">>) EXCEPT !.description = Undef]
      [] c = "M-nover"    -> [Good(<<"foo">>) EXCEPT !.version = Undef]
      [] c = "M-blankver" -> [Good(<<"foo">>) EXCEPT !.version = <<" ">>]
      [] c = "M-badver"   -> [Good(<<"foo">>) EXCEPT !.version = <<"1.0">>]
      [] c = "M-beta"     -> [Good(<<"foo">>) EXCEPT !.version = <<"1.0.0-beta.1">>]
      [] OTHER            -> [name |-> Undef, description |-> Undef, version |-> Undef]

\* validateFrontmatter: "ok" or the field of the first violation
validateFrontmatter(fm) ==
    LET name == Trim(OrEmpty(fm.name))
        description == Trim(OrEmpty(fm.description))
        version == Trim(OrEmpty(fm.version))
    IN  IF name = <<>> THEN "name"
        ELSE IF description = <<>> THEN "description"
        ELSE IF version = <<>> THEN "version"
        ELSE IF ~SemverValid(version) THEN "semver"
        ELSE "ok"

\* String(frontmatter.name).trim()
SkillNameOf(fm) == Trim(fm.name)

(* ----------------------------- targets --------------------------------- *)
NumTargets == 3

\* getInstallTargets(destinationProjectPath), with CODEX_HOME from the environment
getInstallTargets(dest, codexHomeEnv) ==
    IF Truthy(dest)
    THEN LET projectRoot == NormSegs(dest, <<>>) IN
         << [label |-> "codex-project", baseDir |-> PathJoin(projectRoot, <<".codex", "skills">>)],
            [label |-> "claude-project", baseDir |-> PathJoin(projectRoot, <<".claude", "skills">>)],
            [label |-> "gemini-project", baseDir |-> PathJoin(projectRoot, <<".gemini", "skills">>)] >>
    ELSE LET codexHome == IF Truthy(codexHomeEnv) THEN NormSegs(codexHomeEnv, <<>>)
                          ELSE PathJoin(HomeDir, <<".codex">>) IN
         << [label |-> "codex-user", baseDir |-> PathJoin(codexHome, <<"skills">>)],
            [label |-> "claude-user", baseDir |-> PathJoin(HomeDir, <<".claude", "skills">>)],
            [label |-> "gemini-user", baseDir |-> PathJoin(HomeDir, <<".gemini", "skills">>)] >>

\* path.join(targetRoot, skillName)
TargetSkillDir(baseDir, name) == PathJoin(baseDir, SplitSlash(name))

\* a mutation of FlagsConflict: the check is missing
FlagsConflictNever(force, merge) == FALSE

\* runInstall: `force && merge`
FlagsConflict(force, merge) == force /\ merge

\* a mutation of DecideAction: --force is not looked at before prompting
DecideActionPromptsOnForce(exists, force, merge) ==
    IF exists /\ ~merge THEN "prompt"
    ELSE IF exists /\ merge THEN "merge"
    ELSE "overwrite"

\* the conflict action the flags decide, "prompt" when the operator is asked
DecideAction(exists, force, merge) ==
    IF exists /\ ~force /\ ~merge THEN "prompt"
    ELSE IF exists /\ merge THEN "merge"
    ELSE "overwrite"

(* ------------------------------ state ---------------------------------- *)
VARIABLES
    opts,       \* InstallOptions: skillPath, subdir, ref, destinationProjectPath, force, merge
    env,        \* process.env.CODEX_HOME
    fs,         \* the file system
    pc,         \* where the run is
    skillInput, \* runInstall: skillInput
    repoSpec,   \* resolveSkillSource: repoSpec
    cloneDir,   \* resolveSkillSource: cloneDir, Undef before mkdtemp
    rbase,      \* resolveSkillDirFromBase: baseDir
    rsub,       \* resolveSkillDirFromBase: subdir
    skillDir,   \* runInstall: skillDir
    cleanup,    \* whether ResolveResult.cleanup is defined
    skillName,  \* runInstall: skillName
    idx,        \* the position of the loop over targets, 0 before it
    action,     \* the conflict action of the current target
    error,      \* the exception in flight, "" when none
    exitCode,   \* the exit code of the process, -1 while it runs
    fs0,        \* history: the file system before the run
    log,        \* history: the file-system and external operations performed
    cleanups,   \* history: how many times the cleanup ran
    preFs,      \* history: per target, the file system when its action was decided
    postFs,     \* history: per target, the file system when its processing completed
    results     \* history: per target, "none", "installed", "merged" or "skipped"

locals == <<skillInput, repoSpec, cloneDir, rbase, rsub, skillDir, cleanup, skillName, idx, action>>
history == <<fs0, log, cleanups, preFs, postFs, results>>
vars == <<opts, env, fs, pc, error, exitCode, locals, history>>

Targets == getInstallTargets(opts.destinationProjectPath, env)
CurDir == TargetSkillDir(Targets[idx].baseDir, skillName)

Op(op, path) == [op |-> op, path |-> path, ref |-> Undef]

(* ------------------------- the initial worlds -------------------------- *)
SrcFileNames == { <<"f", i>> : i \in 1..NumSrcFiles }
ExtraFileNames == { <<"x", i>> : i \in 1..NumExtraFiles }
FileName(n) == IF n[1] = "f" THEN "f" \o ToString(n[2]) ELSE "x" \o ToString(n[2])

\* g laid over f
Over(f, g) == [q \in DOMAIN f \cup DOMAIN g |-> IF q \in DOMAIN g THEN g[q] ELSE f[q]]
\* a file system with every ancestor of its entries as a directory
Closed(f) ==
    LET all == UNION { Prefixes(q) : q \in DOMAIN f } IN
    [q \in all |-> IF q \in DOMAIN f THEN f[q] ELSE Dir]
\* tree t placed at directory d
Placed(t, d) == [q \in { d \o r : r \in DOMAIN t } \cup {d} |->
                    IF q = d THEN Dir ELSE t[SubSeq(q, Len(d) + 1, Len(q))]]

\* a skill directory: SKILL.md with manifest m and the payload files
SkillTree(m) ==
    [r \in { <<"SKILL.md">> } \cup { <<FileName(n)>> : n \in SrcFileNames } |->
        IF r = <<"SKILL.md">> THEN m ELSE "new"]
\* an older installation: the first payload file with other contents, and
\* files the source does not have
OldTree ==
    [r \in { <<FileName(<<"f", 1>>)>> } \cup { <<FileName(n)>> : n \in ExtraFileNames } |-> "old"]
\* another skill installed beside it
OtherTree == [r \in { <<"SKILL.md">> } |-> "M-bar"]

LocalSrc == <<"s", "foo">>
ProjectDir == <<"p">>

\* the state of a target before the run: nothing, an older installation of
\* "foo" beside another skill, or a plain file named "foo"
PreKinds == {"none", "dir", "file"}
PreOf(base, kind) ==
    IF kind = "none" THEN <<>> :> Dir
    ELSE Over(Placed(OtherTree, base \o <<"bar">>),
              IF kind = "dir" THEN Placed(OldTree, base \o <<"foo">>)
              ELSE (base \o <<"foo">>) :> "old")

InitFs(m, pre, dest, codexHome, alias) ==
    LET ts == getInstallTargets(dest, codexHome)
        basic == [q \in { <<>>, Cwd, HomeDir, TmpDir, ProjectDir } |-> Dir]
        withPre == Over(Over(Over(basic, PreOf(ts[1].baseDir, pre[1])),
                             PreOf(ts[2].baseDir, pre[2])),
                        PreOf(ts[3].baseDir, pre[3]))
        withSrc == Over(withPre, Placed(SkillTree(m), LocalSrc))
    IN  Closed(IF alias THEN Over(withSrc, Placed(SkillTree(m), ts[2].baseDir \o <<"foo">>))
               ELSE withSrc)

Local(abs, segs) == [scheme |-> "none", host |-> "", abs |-> abs, segs |-> segs]
Url(scheme, host, segs) == [scheme |-> scheme, host |-> host, abs |-> FALSE, segs |-> segs]

Manifests == {"M-foo", "M-pad", "M-dot", "M-dotdot", "M-up2", "M-nested", "M-noname",
              "M-blank", "M-nodesc", "M-nover", "M-blankver", "M-badver", "M-beta"}

LocalInputs ==
    { Local(TRUE, <<"s", "foo">>), Local(FALSE, <<"foo">>),
      Local(TRUE, <<"s", "foo", "SKILL.md">>), Local(TRUE, <<"s", "foo", "f1">>),
      Local(TRUE, <<"s", "nope">>), Local(TRUE, <<"s">>), EmptyInput }

RepoInputs ==
    { Url("https", "github.com", <<"o", "r">>),
      Url("https", "github.com", <<"o", "r", "tree", "main", "skills", "x">>),
      Url("https", "github.com", <<"o", "r", "blob", "main", "skills", "x", "SKILL.md">>),
      Url("http", "github.com", <<"o", "r", "tree", "main", "SKILL.md">>),
      Url("https", "github.com", <<"o", "r", "tree", "main">>),
      Url("https", "github.com", <<"o", "r", "tree">>),
      Url("https", "github.com", <<"o">>),
      Url("https", "example.com", <<"o", "r", "tree", "main", "skills", "x">>),
      Url("https", "", <<>>),
      Local(FALSE, <<"o", "r">>),
      Local(TRUE, <<"srv", "r.git">>) }

\* what a clone can bring: the skill at the root, in skills/x, or nowhere
RepoTrees ==
    { SkillTree("M-foo"),
      Closed([r \in { <<"skills", "x", "SKILL.md">>, <<"README.md">> } |->
                 IF r = <<"README.md">> THEN "new" ELSE "M-foo"]),
      Closed([r \in { <<"skills", "x", "SKILL.md">> } |-> "M-badver"]),
      [r \in { <<"README.md">> } |-> "new"] }

NoPre == [i \in 1..NumTargets |-> "none"]
AllPre == [i \in 1..NumTargets |-> "dir"]

InitWith(o, e, f) ==
    /\ opts = o /\ env = e /\ fs = f /\ fs0 = f
    /\ pc = "start" /\ error = "" /\ exitCode = -1
    /\ skillInput = EmptyInput /\ repoSpec = NullSpec /\ cloneDir = Undef
    /\ rbase = <<>> /\ rsub = Undef /\ skillDir = <<>> /\ cleanup = FALSE
    /\ skillName = <<>> /\ idx = 0 /\ action = "none"
    /\ log = <<>> /\ cleanups = 0
    /\ preFs = [i \in 1..NumTargets |-> f] /\ postFs = [i \in 1..NumTargets |-> f]
    /\ results = [i \in 1..NumTargets |-> "none"]

Options(sp, sd, rf, dest, force, merge) ==
    [skillPath |-> sp, subdir |-> sd, ref |-> rf, destinationProjectPath |-> dest,
     force |-> force, merge |-> merge]

\* runs over a local source, every manifest, every flag, both scopes
InitLocal ==
    \E sp \in LocalInputs, sd \in {Undef, <<"foo">>}, dest \in {Undef, ProjectDir},
       force \in BOOLEAN, merge \in BOOLEAN, m \in Manifests,
       pre \in [1..NumTargets -> PreKinds] :
        /\ (sp # Local(TRUE, <<"s", "foo">>) => m = "M-foo" /\ pre \in {NoPre, AllPre})
        /\ (sd # Undef => sp \in {Local(TRUE, <<"s">>), Local(TRUE, <<"s", "foo">>)} /\ m = "M-foo")
        /\ (m # "M-foo" => pre \in {NoPre, AllPre})
        /\ (\E i \in 1..NumTargets : pre[i] = "file") => (pre[1] = "file" /\ pre[2] = "dir")
        /\ InitWith(Options(sp, sd, Undef, dest, force, merge), Undef,
                    InitFs(m, pre, dest, Undef, FALSE))

\* runs whose source is an installed skill: the source directory is the
\* claude target's skill directory
InitAlias ==
    \E dest \in {Undef, ProjectDir}, force \in BOOLEAN, merge \in BOOLEAN,
       m \in {"M-foo", "M-beta"}, pre \in {NoPre, AllPre} :
        InitWith(Options(Local(TRUE, getInstallTargets(dest, Undef)[2].baseDir \o <<"foo">>),
                         Undef, Undef, dest, force, merge),
                 Undef, InitFs(m, pre, dest, Undef, TRUE))

\* runs over a repository
InitRepo ==
    \E sp \in RepoInputs, sd \in {Undef, <<>>, <<"skills", "x">>}, rf \in {Undef, <<>>, <<"v1">>},
       force \in BOOLEAN, merge \in BOOLEAN, pre \in {NoPre, AllPre}, e \in {Undef, <<"c">>} :
        /\ (merge => force)
        /\ (e # Undef => pre = NoPre /\ ~force)
        /\ InitWith(Options(sp, sd, rf, Undef, force, merge), e,
                    InitFs("M-foo", pre, Undef, e, FALSE))

Init == InitLocal \/ InitAlias \/ InitRepo

(* ----------------------------- actions --------------------------------- *)
\* an exception thrown outside runInstall's try block reaches program.action's catch
Throw(e) == error' = e /\ pc' = "catch"
\* an exception thrown inside the try block runs the finally block first
ThrowInTry(e) == error' = e /\ pc' = "finally"

\* runInstall up to the first await of resolveSkillSource: the help exit, the
\* --force/--merge check, skillInput, parseRepoSpec and the subdir check
Start ==
    /\ pc = "start"
    /\ IF opts.skillPath = EmptyInput
       THEN /\ error' = "help" /\ exitCode' = 1 /\ pc' = "exit"
            /\ UNCHANGED <<locals>>
       ELSE IF FlagsConflict(opts.force, opts.merge)
       THEN /\ Throw("config-flags")
            /\ UNCHANGED <<exitCode, locals>>
       ELSE LET input == SkillInputOf(opts.skillPath)
                spec == parseRepoSpec(input)
            IN  /\ skillInput' = input
                /\ repoSpec' = spec
                /\ IF spec.isRepo /\ SubdirConflict(opts.subdir, spec)
                   THEN Throw("config-subdir")
                   ELSE /\ pc' = IF spec.isRepo THEN "mkdtemp" ELSE "stat"
                        /\ error' = error
                /\ UNCHANGED <<exitCode, cloneDir, rbase, rsub, skillDir, cleanup, skillName, idx, action>>
    /\ UNCHANGED <<opts, env, fs, history>>

\* fs.mkdtemp(path.join(os.tmpdir(), "agent-skill-"))
Mkdtemp ==
    /\ pc = "mkdtemp"
    /\ LET d == TmpDir \o <<"agent-skill-a1">> IN
       \/ /\ fs' = Mkdir(fs, d)
          /\ cloneDir' = d
          /\ log' = Append(log, Op("mkdtemp", d))
          /\ pc' = "clone"
          /\ UNCHANGED error
       \/ /\ Throw("fs")
          /\ UNCHANGED <<fs, cloneDir, log>>
    /\ UNCHANGED <<opts, env, exitCode, skillInput, repoSpec, rbase, rsub, skillDir, cleanup,
                   skillName, idx, action, fs0, cleanups, preFs, postFs, results>>

\* cloneRepo(repoSpec.repoUrl, cloneDir, ref || repoSpec.ref): git either
\* fills the directory or fails (not installed, or a non-zero exit)
CloneRepo ==
    /\ pc = "clone"
    /\ log' = Append(log, [op |-> "clone", path |-> cloneDir, ref |-> CloneRef(opts.ref, repoSpec)])
    /\ \/ \E t \in RepoTrees :
            /\ fs' = Over(fs, Placed(t, cloneDir))
            /\ rbase' = cloneDir
            /\ rsub' = (IF Truthy(RepoSubdir(opts.subdir, repoSpec))
                        THEN RepoSubdir(opts.subdir, repoSpec) ELSE Undef)
            /\ pc' = "resolveBase"
            /\ UNCHANGED error
       \/ \E e \in {"git-missing", "git-exit"} :
            /\ Throw(e)
            /\ UNCHANGED <<fs, rbase, rsub>>
    /\ UNCHANGED <<opts, env, exitCode, skillInput, repoSpec, cloneDir, skillDir, cleanup,
                   skillName, idx, action, fs0, cleanups, preFs, postFs, results>>

\* fs.stat(resolvedSkillPath) and the file / directory cases of a local source
StatLocal ==
    /\ pc = "stat"
    /\ LET p == skillInput.segs IN
       /\ log' = Append(log, Op("stat", p))
       /\ IF ~FsExists(fs, p)
          THEN Throw("not-found") /\ UNCHANGED <<rbase, rsub, skillDir>>
          ELSE IF FsIsFile(fs, p)
          THEN IF BaseName(p) # "SKILL.md"
               THEN Throw("not-skill-md") /\ UNCHANGED <<rbase, rsub, skillDir>>
               ELSE /\ skillDir' = DirName(p)
                    /\ pc' = "read"
                    /\ UNCHANGED <<error, rbase, rsub>>
          ELSE /\ rbase' = p
               /\ rsub' = (IF Truthy(opts.subdir) THEN opts.subdir ELSE Undef)
               /\ pc' = "resolveBase"
               /\ UNCHANGED <<error, skillDir>>
    /\ UNCHANGED <<opts, env, fs, exitCode, skillInput, repoSpec, cloneDir, cleanup,
                   skillName, idx, action, fs0, cleanups, preFs, postFs, results>>

\* resolveSkillDirFromBase and the return of resolveSkillSource
ResolveBase ==
    /\ pc = "resolveBase"
    /\ LET d == SkillDirFromBase(rbase, rsub) IN
       /\ log' = Append(log, Op("stat", d \o <<"SKILL.md">>))
       /\ IF ~FsIsFile(fs, d \o <<"SKILL.md">>)
          THEN Throw("no-manifest") /\ UNCHANGED <<skillDir, cleanup>>
          ELSE /\ skillDir' = d
               /\ cleanup' = repoSpec.isRepo
               /\ pc' = "read"
               /\ UNCHANGED error
    /\ UNCHANGED <<opts, env, fs, exitCode, skillInput, repoSpec, cloneDir, rbase, rsub,
                   skillName, idx, action, fs0, cleanups, preFs, postFs, results>>

\* a mutation of ReadManifest: the first target's base directory is made
\* before the frontmatter is validated
ReadManifestValidatesLate ==
    /\ pc = "read"
    /\ LET f == skillDir \o <<"SKILL.md">>
           b == Targets[1].baseDir IN
       /\ \/ /\ FsIsFile(fs, f) /\ MkdirOk(fs, b)
             /\ fs' = Mkdir(fs, b)
             /\ log' = Append(Append(log, Op("readFile", f)), Op("mkdir", b))
             /\ LET fm == Frontmatter(fs[f])
                    v == validateFrontmatter(fm)
                IN  IF v # "ok"
                    THEN ThrowInTry(v) /\ UNCHANGED <<skillName, idx>>
                    ELSE /\ skillName' = SkillNameOf(fm)
                         /\ idx' = 1
                         /\ pc' = "mkdirBase"
                         /\ UNCHANGED error
          \/ /\ ThrowInTry("read")
             /\ log' = Append(log, Op("readFile", f))
             /\ UNCHANGED <<fs, skillName, idx>>
    /\ UNCHANGED <<opts, env, exitCode, skillInput, repoSpec, cloneDir, rbase, rsub, skillDir,
                   cleanup, action, fs0, cleanups, preFs, postFs, results>>

\* fs.readFile(SKILL.md), matter, validateFrontmatter, skillName, getInstallTargets
ReadManifest ==
    /\ pc = "read"
    /\ LET f == skillDir \o <<"SKILL.md">> IN
       /\ log' = Append(log, Op("readFile", f))
       /\ \/ /\ FsIsFile(fs, f)
             /\ LET fm == Frontmatter(fs[f])
                    v == validateFrontmatter(fm)
                IN  IF v # "ok"
                    THEN ThrowInTry(v) /\ UNCHANGED <<skillName, idx>>
                    ELSE /\ skillName' = SkillNameOf(fm)
                         /\ idx' = 1
                         /\ pc' = "mkdirBase"
                         /\ UNCHANGED error
          \/ /\ ThrowInTry("read")
             /\ UNCHANGED <<skillName, idx>>
    /\ UNCHANGED <<opts, env, fs, exitCode, skillInput, repoSpec, cloneDir, rbase, rsub, skillDir,
                   cleanup, action, fs0, cleanups, preFs, postFs, results>>

\* fs.mkdir(targetRoot, {recursive: true})
MkdirBase ==
    /\ pc = "mkdirBase"
    /\ LET b == Targets[idx].baseDir IN
       /\ log' = Append(log, Op("mkdir", b))
       /\ \/ /\ MkdirOk(fs, b)
             /\ fs' = Mkdir(fs, b)
             /\ pc' = "decide"
             /\ UNCHANGED error
          \/ /\ ThrowInTry("fs")
             /\ UNCHANGED fs
    /\ UNCHANGED <<opts, env, exitCode, locals, fs0, cleanups, preFs, postFs, results>>

\* pathExists(targetSkillDir) and the choice of the action
Decide ==
    /\ pc = "decide"
    /\ LET a == DecideAction(FsExists(fs, CurDir), opts.force, opts.merge) IN
       /\ log' = Append(log, Op("access", CurDir))
       /\ preFs' = [preFs EXCEPT ![idx] = fs]
       /\ action' = a
       /\ pc' = IF a = "prompt" THEN "prompt" ELSE "execute"
    /\ UNCHANGED <<opts, env, fs, error, exitCode, skillInput, repoSpec, cloneDir, rbase, rsub,
                   skillDir, cleanup, skillName, idx, fs0, cleanups, postFs, results>>

\* promptConflictAction: the operator answers
Prompt ==
    /\ pc = "prompt"
    /\ \E a \in {"overwrite", "merge", "skip"} : action' = a
    /\ log' = Append(log, Op("prompt", CurDir))
    /\ pc' = "execute"
    /\ UNCHANGED <<opts, env, fs, error, exitCode, skillInput, repoSpec, cloneDir, rbase, rsub,
                   skillDir, cleanup, skillName, idx, fs0, cleanups, preFs, postFs, results>>

Completed(r, f) ==
    /\ results' = [results EXCEPT ![idx] = r]
    /\ postFs' = [postFs EXCEPT ![idx] = f]
    /\ pc' = "targetDone"

\* action "skip": nothing is done for the target
Skip ==
    /\ pc = "execute" /\ action = "skip"
    /\ Completed("skipped", fs)
    /\ UNCHANGED <<opts, env, fs, error, exitCode, locals, fs0, log, cleanups, preFs>>

\* action "overwrite", first half: fs.rm(targetSkillDir, {recursive, force})
Remove ==
    /\ pc = "execute" /\ action = "overwrite"
    /\ log' = Append(log, Op("rm", CurDir))
    /\ \/ /\ fs' = Rm(fs, CurDir)
          /\ pc' = "copy"
          /\ UNCHANGED error
       \/ /\ ThrowInTry("fs")
          /\ UNCHANGED fs
    /\ UNCHANGED <<opts, env, exitCode, locals, fs0, cleanups, preFs, postFs, results>>

\* action "merge" goes to the copy at once
MergeNoRemove ==
    /\ pc = "execute" /\ action = "merge"
    /\ pc' = "copy"
    /\ UNCHANGED <<opts, env, fs, error, exitCode, locals, history>>

\* the sets of entries a copy that fails part-way may have written
PartialCopies(f, src) ==
    { rels \in SUBSET RelPaths(f, src) :
        /\ rels # RelPaths(f, src)
        /\ \A r \in rels : \A n \in 1..Len(r) : SubSeq(r, 1, n) \in rels }

\* copyDir(skillDir, targetSkillDir)
Copy ==
    /\ pc = "copy"
    /\ log' = Append(log, Op("cp", CurDir))
    /\ \/ /\ CopyDirOk(fs, skillDir, CurDir)
          /\ fs' = CopyDir(fs, skillDir, CurDir)
          /\ Completed(IF action = "merge" THEN "merged" ELSE "installed", fs')
          /\ UNCHANGED error
       \/ /\ ~MkdirOk(fs, CurDir)
          /\ ThrowInTry("fs")
          /\ UNCHANGED <<fs, postFs, results>>
       \/ /\ MkdirOk(fs, CurDir) /\ ~CpOk(Mkdir(fs, CurDir), skillDir, CurDir)
          /\ fs' = Mkdir(fs, CurDir)
          /\ ThrowInTry("fs")
          /\ UNCHANGED <<postFs, results>>
       \/ /\ CopyDirOk(fs, skillDir, CurDir)
          /\ \E rels \in PartialCopies(Mkdir(fs, CurDir), skillDir) :
                fs' = CpSome(Mkdir(fs, CurDir), skillDir, CurDir, rels)
          /\ ThrowInTry("fs")
          /\ UNCHANGED <<postFs, results>>
    /\ UNCHANGED <<opts, env, exitCode, locals, fs0, cleanups, preFs>>

\* `continue`: the next target, or the end of the loop
NextTarget ==
    /\ pc = "targetDone"
    /\ IF idx < NumTargets
       THEN idx' = idx + 1 /\ pc' = "mkdirBase"
       ELSE idx' = idx /\ pc' = "finally"
    /\ UNCHANGED <<opts, env, fs, error, exitCode, skillInput, repoSpec, cloneDir, rbase, rsub,
                   skillDir, cleanup, skillName, action, history>>

\* the finally block: cleanup() removes the clone directory when it is defined
Finally ==
    /\ pc = "finally"
    /\ IF cleanup
       THEN /\ fs' = Rm(fs, cloneDir)
            /\ cleanups' = cleanups + 1
            /\ log' = Append(log, Op("rm", cloneDir))
       ELSE UNCHANGED <<fs, cleanups, log>>
    /\ IF error # ""
       THEN pc' = "catch" /\ exitCode' = exitCode
       ELSE pc' = "exit" /\ exitCode' = 0
    /\ UNCHANGED <<opts, env, error, locals, fs0, preFs, postFs, results>>

\* program.action's catch: the message and process.exit(1)
Catch ==
    /\ pc = "catch"
    /\ exitCode' = 1
    /\ pc' = "exit"
    /\ UNCHANGED <<opts, env, fs, error, locals, history>>

Next ==
    \/ Start \/ Mkdtemp \/ CloneRepo \/ StatLocal \/ ResolveBase \/ ReadManifest
    \/ MkdirBase \/ Decide \/ Prompt \/ Skip \/ Remove \/ MergeNoRemove \/ Copy
    \/ NextTarget \/ Finally \/ Catch

Spec == Init /\ [][Next]_vars

(* ------------------------ vocabulary of the claims --------------------- *)
Terminated == pc = "exit"
ResolutionErrors == {"not-found", "not-skill-md", "no-manifest"}
ValidationErrors == {"name", "description", "version", "semver"}

\* the part of a file system at and below a path
Sub(f, d) == [q \in { x \in DOMAIN f : IsPrefix(d, x) } |-> f[q]]
\* the destination of target j
TDir(j) == TargetSkillDir(Targets[j].baseDir, skillName)
\* the operations of the log with one of the given names
LogOps(names) == { i \in 1..Len(log) : log[i].op \in names }
\* a github.com URL of the form .../tree/<ref>/<path> or .../blob/<ref>/<path>
HasUrlSubpath(input) ==
    /\ input.scheme \in {"http", "https"} /\ input.host = "github.com"
    /\ Len(input.segs) >= 5
    /\ input.segs[3] \in {"tree", "blob"}
    /\ \E n \in 5..Len(input.segs) : input.segs[n] # ""

(* ------------------------------- C1 ------------------------------------ *)
\* C1: whenever the temporary clone directory was created, it no longer
\* exists when the run terminates, however the run ends after its creation,
\* and the cleanup that removes it ran exactly once.
C1_CloneDirRemoved ==
    (Terminated /\ cloneDir # Undef) => (~FsExists(fs, cloneDir) /\ cleanups = 1)

(* ------------------------------- C2 ------------------------------------ *)
\* C2: in a run that ends with a resolution error or a validation error no
\* target base directory was created and no target skill directory was
\* created, removed or written: outside the temporary directory the file
\* system is as before the run, and the only operations performed are the
\* resolver's (stat, readFile, mkdtemp, clone, and the cleanup's removal of
\* the clone directory).
C2_NoTargetTouched ==
    (Terminated /\ error \in ResolutionErrors \cup ValidationErrors) =>
        /\ Rm(fs, TmpDir) = Rm(fs0, TmpDir)
        /\ LogOps({"mkdir", "access", "prompt", "cp"}) = {}
        /\ \A i \in LogOps({"rm"}) : log[i].path = cloneDir
        /\ results = [j \in 1..NumTargets |-> "none"]

\* a run over a source whose manifest fails validation has ended, with
\* installations of the skill present that --force would have replaced
C2_Witness ==
    /\ Terminated /\ error \in ValidationErrors
    /\ opts.force
    /\ \E j \in 1..NumTargets : FsExists(fs0, Targets[j].baseDir \o <<"foo">>)

(* ------------------------------- C3 ------------------------------------ *)
\* C3: when a target's action is overwrite, then once its processing has
\* completed the destination is a directory whose tree is exactly the tree
\* the skill source had, whatever the destination held before.
C3_OverwriteIdentical ==
    (pc = "targetDone" /\ action = "overwrite") =>
        /\ FsIsDir(fs, CurDir)
        /\ Tree(fs, CurDir) = Tree(preFs[idx], skillDir)

\* an overwrite has completed on a destination that held a file the source
\* does not have
C3_Witness ==
    /\ pc = "targetDone" /\ action = "overwrite" /\ results[idx] = "installed"
    /\ \E r \in RelPaths(preFs[idx], CurDir) : r \notin RelPaths(preFs[idx], skillDir)

(* ------------------------------- C4 ------------------------------------ *)
\* C4: when a target's action is merge, then once its processing has
\* completed every entry the destination had and the source has not is still
\* there unchanged, every entry of the source is in the destination with the
\* source's contents, and nothing else is there: no file was deleted.
C4_MergePreserves ==
    (pc = "targetDone" /\ action = "merge") =>
        LET old == Tree(preFs[idx], CurDir)
            src == Tree(preFs[idx], skillDir)
            now == Tree(fs, CurDir)
        IN  /\ FsExists(preFs[idx], CurDir)
            /\ DOMAIN now = DOMAIN old \cup DOMAIN src
            /\ \A r \in DOMAIN src : now[r] = src[r]
            /\ \A r \in DOMAIN old \ DOMAIN src : now[r] = old[r]

\* a merge has completed on a destination that held a file the source does
\* not have and a file the source has with other contents
C4_Witness ==
    /\ pc = "targetDone" /\ action = "merge" /\ results[idx] = "merged"
    /\ LET old == Tree(preFs[idx], CurDir)
           src == Tree(preFs[idx], skillDir)
       IN  /\ \E r \in DOMAIN old : r \notin DOMAIN src
           /\ \E r \in DOMAIN old \cap DOMAIN src : old[r] # src[r]

(* ------------------------------- C5 ------------------------------------ *)
\* the action of the current target against the state the target was in when
\* it was decided, and the prompt having been issued exactly when the
\* destination existed and neither flag was set
C5_Decided ==
    (pc = "execute") =>
        LET e == FsExists(preFs[idx], CurDir)
            prompted == log[Len(log)].op = "prompt"
        IN  /\ (~e => action = "overwrite")
            /\ (e /\ opts.force => action = "overwrite")
            /\ (e /\ opts.merge => action = "merge")
            /\ (e /\ ~opts.force /\ ~opts.merge => action \in {"overwrite", "merge", "skip"})
            /\ (prompted <=> (e /\ ~opts.force /\ ~opts.merge))

\* nothing happens to the file system while the prompt is unanswered, a skip
\* changes nothing, and the loop goes on to the next target after any result
C5_Steps ==
    /\ (pc = "prompt" => (fs' = fs /\ pc' = "execute" /\ idx' = idx))
    /\ (pc = "decide" /\ pc' = "execute" => action' # "skip")
    /\ (pc = "execute" /\ action = "skip" =>
            (fs' = fs /\ pc' = "targetDone" /\ results'[idx] = "skipped"
             /\ Len(log') = Len(log)))
    /\ (pc = "targetDone" /\ idx < NumTargets => (pc' = "mkdirBase" /\ idx' = idx + 1))

\* C5: per target the action is decided from the target's state and the
\* flags (absent -> overwrite, --force -> overwrite, --merge -> merge,
\* neither -> the operator's answer); the prompt is issued iff the
\* destination exists and neither flag is set and blocks the target until
\* answered; a skip removes and copies nothing and later targets go on.
C5_ConflictAction == []C5_Decided /\ [][C5_Steps]_vars

\* the first target was skipped at the prompt and the second one merged
C5_Witness ==
    /\ pc = "targetDone" /\ idx = 2
    /\ results[1] = "skipped" /\ results[2] = "merged"
    /\ ~opts.force /\ ~opts.merge

(* ------------------------------- C6 ------------------------------------ *)
\* C6: with a skill path and both --force and --merge the run fails with a
\* configuration error and nothing was accessed: no stat, no temporary
\* directory, no clone, no base directory, no change of the file system.
C6_FlagsRejectedFirst ==
    (opts.skillPath # EmptyInput /\ opts.force /\ opts.merge) =>
        /\ log = <<>> /\ fs = fs0 /\ cloneDir = Undef
        /\ pc \in {"start", "catch", "exit"}
        /\ (Terminated => error = "config-flags" /\ exitCode = 1)

\* a run with both flags over a repository input has ended
C6_Witness ==
    /\ Terminated /\ opts.force /\ opts.merge
    /\ isRepoLike(opts.skillPath)

(* ------------------------------- C7 ------------------------------------ *)
\* C7: --subdir together with a URL that encodes a subpath fails with a
\* configuration error before the temporary directory and the clone; with one
\* of the two the skill directory is the clone directory joined with that
\* one; an explicit --ref is the ref of the clone.
C7_SubdirAndRef ==
    /\ (Truthy(opts.subdir) /\ HasUrlSubpath(opts.skillPath)) =>
            /\ cloneDir = Undef /\ LogOps({"mkdtemp", "clone"}) = {} /\ fs = fs0
            /\ pc \in {"start", "catch", "exit"}
            /\ (Terminated =>
                    /\ exitCode = 1
                    /\ error = IF opts.force /\ opts.merge THEN "config-flags"
                               ELSE "config-subdir")
    /\ (cleanup /\ Truthy(opts.subdir) /\ ~HasUrlSubpath(opts.skillPath)) =>
            skillDir = PathJoin(cloneDir, opts.subdir)
    /\ (cleanup /\ ~Truthy(opts.subdir) /\ HasUrlSubpath(opts.skillPath)) =>
            skillDir = PathJoin(cloneDir, repoSpec.subdir)
    /\ \A i \in LogOps({"clone"}) : Truthy(opts.ref) => log[i].ref = opts.ref

\* a run with --subdir, --ref and a tree URL has ended
C7_Witness ==
    /\ Terminated /\ error = "config-subdir"
    /\ Truthy(opts.ref) /\ HasUrlSubpath(opts.skillPath)

(* ------------------------------- C8 ------------------------------------ *)
\* C8: a file-system error while target k is processed ends the run with
\* exit code 1; every target before k was processed and keeps the result it
\* reached; no target after k was processed, had its base directory created
\* or its skill directory removed or written.
C8_AbortKeepsEarlier ==
    (Terminated /\ error = "fs" /\ idx >= 1) =>
        /\ exitCode = 1
        /\ \A j \in 1..(idx - 1) :
              /\ results[j] # "none"
              /\ Sub(fs, TDir(j)) = Sub(postFs[j], TDir(j))
        /\ \A j \in (idx + 1)..NumTargets :
              /\ results[j] = "none"
              /\ Sub(fs, TDir(j)) = Sub(fs0, TDir(j))
              /\ (FsExists(fs, Targets[j].baseDir) <=> FsExists(fs0, Targets[j].baseDir))

\* the same statement for the names that are one plain path segment
C8_PlainNames ==
    (Len(skillName) = 1 /\ skillName[1] \notin {".", ".."}) => C8_AbortKeepsEarlier

(* ------------------------------- C9 ------------------------------------ *)
\* C9: a run over a local source leaves the skill source directory as it was.
C9_SourceUntouched ==
    (~repoSpec.isRepo /\ pc \notin {"start", "stat", "resolveBase"} /\ skillDir # <<>>) =>
        Sub(fs, skillDir) = Sub(fs0, skillDir)

(* ------------------------------- C10 ----------------------------------- *)
\* C10: once a target has been acted upon, its destination is a direct child
\* of the target's base directory, and apart from the base directories
\* themselves nothing outside the destinations of the targets processed so
\* far has changed.
C10_Contained ==
    (idx >= 1 /\ pc \in {"copy", "targetDone"}) =>
        /\ DirName(CurDir) = Targets[idx].baseDir /\ CurDir # Targets[idx].baseDir
        /\ \A q \in DOMAIN fs \cup DOMAIN fs0 :
              (/\ \A j \in 1..idx : ~IsPrefix(Targets[j].baseDir \o <<BaseName(TDir(j))>>, q)
               /\ \A j \in 1..idx : ~IsPrefix(q, Targets[j].baseDir)
               /\ ~IsPrefix(TmpDir, q))
              => (q \in DOMAIN fs /\ q \in DOMAIN fs0 /\ fs[q] = fs0[q])

\* the same statement for the names that are one plain path segment
C10_PlainNames ==
    (Len(skillName) = 1 /\ skillName[1] \notin {".", ".."}) => C10_Contained

====
